---- MODULE Spec2Model ----
(***************************************************************************)
(* Model of the action-script agent: the incremental linter                *)
(* (src/src/core/incremental_linter.py), the execution environment         *)
(* (src/src/core/action_script_execution_environment.py), the global state *)
(* store (src/src/data_stores/global_state.py), the core functions         *)
(* (src/src/tools/core_functions.py) and the correction loop of            *)
(* AgentController.run (src/main.py).                                      *)
(*                                                                         *)
(* Script text is a sequence of lexemes, each standing for a fixed piece   *)
(* of Python text:                                                         *)
(*   a name lexeme  its own text (reflect, respond, ..., foo, open)        *)
(*   "import"       the text  import                                       *)
(*   "(" ")" "."    themselves                                             *)
(*   "SP" "TAB"     one blank, one tab         "NL"   one line feed        *)
(*   "sX"           the literal "X"                                        *)
(*   "sK"           the literal "search_web"                               *)
(*   "sI"           the literal "import x"  (holds the text  import+blank) *)
(*   "sF"           the literal "capital of France"                        *)
(* A token of the generator's stream is a non-empty sequence of lexemes;   *)
(* the linter's buffer is the concatenation of the tokens consumed.        *)
(***************************************************************************)
EXTENDS Integers, Sequences, FiniteSets, TLC

VARIABLES
    pc,                   \* position of AgentController.run / validate_stream
    allowed_functions,    \* IncrementalLinter.allowed_functions
    script_stream,        \* tokens the generator has still to produce
    consumed,             \* tokens validate_stream has pulled from the stream so far
    buffer,               \* IncrementalLinter.buffer
    action_script_parts,  \* tokens received from validate_stream (main.py:105-109)
    linter_error,         \* the LinterError raised by validate_stream, or NoError
    correction_attempts,  \* main.py:96
    turn_in_progress,     \* main.py:94
    messages,             \* the generation request under construction (main.py:92)
    action_script,        \* main.py:100,110
    raised,               \* what execute_script raised, or NoSignal when it returned
    exec_log,             \* capability invocations of the last execute_script, in order
    global_state,         \* GlobalState._state
    conversation_history, \* main.py:40
    consolidated,         \* transcripts handed to consolidate_memory, in order
    requests,             \* generation requests issued since correction_attempts was last reset
    generated,            \* generation requests issued by this run
    host                  \* what the host offers a script: importable modules, files that open

lintVars == <<allowed_functions, script_stream, consumed, buffer,
              action_script_parts, linter_error>>

loopVars == <<correction_attempts, turn_in_progress, messages, action_script,
              raised, exec_log, global_state, conversation_history,
              consolidated, requests, generated, host>>

vars == <<pc, lintVars, loopVars>>

----------------------------------------------------------------------------
(* Bounds *)

MaxTokens == 3

MaxRequests == 5

----------------------------------------------------------------------------
(* Lexemes *)

\* The capabilities modelled: the core functions respond, continue_turn,
\* reflect and delete_state_key, and the tool search_web.  The other tools and
\* summarize_state go through the same wrapper as search_web does: they return
\* a value and raise no control flow exception.
CoreNames == {"respond", "continue_turn", "reflect", "delete_state_key"}

ToolNames == {"search_web"}

NameLex == CoreNames \cup ToolNames \cup {"foo", "open"}

WordLex == NameLex \cup {"import"}

StrLex == {"sX", "sK", "sI", "sF"}

WsLex == {"SP", "TAB"}

RECURSIVE Flatten(_)
Flatten(tokens) ==
    IF tokens = <<>> THEN <<>> ELSE Head(tokens) \o Flatten(Tail(tokens))

----------------------------------------------------------------------------
(* The text scan of validate_stream:  "import " in self.buffer.lstrip()    *)

RECURSIVE lstrip(_)
lstrip(text) ==
    IF text # <<>> /\ Head(text) \in WsLex \cup {"NL"}
    THEN lstrip(Tail(text))
    ELSE text

\* The text  import+blank  occurs: the word import directly followed by a
\* blank (whatever precedes it), or inside the literal "import x".
ContainsImportText(text) ==
    \/ \E i \in 1..Len(text) : text[i] = "sI"
    \/ \E i \in 1..(Len(text) - 1) : text[i] = "import" /\ text[i + 1] = "SP"

----------------------------------------------------------------------------
(* ast.parse on the lexeme language.  Lex is Python's tokenizer: adjacent  *)
(* word lexemes form one identifier, blanks separate, a line feed inside   *)
(* parentheses is ignored, blank lines are ignored, leading blanks on a    *)
(* logical line give an INDENT, three adjacent dots are the Ellipsis.      *)

Tok(k, v) == [k |-> k, v |-> v]

RECURSIVE WordEnd(_, _)
WordEnd(text, i) ==
    IF i + 1 <= Len(text) /\ text[i + 1] \in WordLex
    THEN WordEnd(text, i + 1)
    ELSE i

RECURSIVE Lex(_, _, _, _, _)
Lex(text, i, depth, bol, ind) ==
    IF i > Len(text) THEN <<>>
    ELSE LET c == text[i]
             pre == IF bol /\ ind THEN <<Tok("indent", <<>>)>> ELSE <<>>
         IN  CASE c \in WsLex -> Lex(text, i + 1, depth, bol, bol)
               [] c = "NL" ->
                    IF depth > 0 \/ bol
                    THEN Lex(text, i + 1, depth, bol, FALSE)
                    ELSE <<Tok("nl", <<>>)>> \o Lex(text, i + 1, 0, TRUE, FALSE)
               [] c \in WordLex ->
                    LET j == WordEnd(text, i)
                        run == SubSeq(text, i, j)
                    IN  pre \o <<IF run = <<"import">> THEN Tok("kw", run)
                                                      ELSE Tok("id", run)>>
                            \o Lex(text, j + 1, depth, FALSE, FALSE)
               [] c \in StrLex ->
                    pre \o <<Tok("str", <<c>>)>> \o Lex(text, i + 1, depth, FALSE, FALSE)
               [] c = "(" ->
                    pre \o <<Tok("(", <<>>)>> \o Lex(text, i + 1, depth + 1, FALSE, FALSE)
               [] c = ")" ->
                    IF depth > 0
                    THEN pre \o <<Tok(")", <<>>)>> \o Lex(text, i + 1, depth - 1, FALSE, FALSE)
                    ELSE pre \o <<Tok("err", <<>>)>> \o Lex(text, i + 1, 0, FALSE, FALSE)
               [] c = "." /\ i + 2 <= Len(text) /\ text[i + 1] = "." /\ text[i + 2] = "." ->
                    pre \o <<Tok("ellipsis", <<>>)>> \o Lex(text, i + 3, depth, FALSE, FALSE)
               [] OTHER ->
                    pre \o <<Tok(c, <<>>)>> \o Lex(text, i + 1, depth, FALSE, FALSE)

\* AST nodes: kids are the child nodes in ast.iter_child_nodes order.
Node(t, id, kids) == [t |-> t, id |-> id, kids |-> kids]

Res(ok, pos, node) == [ok |-> ok, pos |-> pos, node |-> node]

SyntaxErr == Res(FALSE, 0, Node("none", <<>>, <<>>))

Kind(ts, i) == IF i <= Len(ts) THEN ts[i].k ELSE "eof"

RECURSIVE StrEnd(_, _)
StrEnd(ts, i) == IF Kind(ts, i + 1) = "str" THEN StrEnd(ts, i + 1) ELSE i

RECURSIVE StrValue(_, _, _)
StrValue(ts, i, j) ==
    IF i > j THEN <<>> ELSE ts[i].v \o StrValue(ts, i + 1, j)

RECURSIVE ParseExpr(_, _)
RECURSIVE ParseTrailers(_, _, _)

\* the ")" that ends a parenthesised expression e
CloseParen(ts, e) ==
    IF e.ok /\ Kind(ts, e.pos) = ")" THEN Res(TRUE, e.pos + 1, e.node) ELSE SyntaxErr

\* atom: NAME | STRING+ | "..." | "(" ")" | "(" expr ")"
ParseAtom(ts, i) ==
    CASE Kind(ts, i) = "id" -> Res(TRUE, i + 1, Node("Name", ts[i].v, <<>>))
      [] Kind(ts, i) = "ellipsis" -> Res(TRUE, i + 1, Node("Constant", <<"...">>, <<>>))
      [] Kind(ts, i) = "str" ->
            Res(TRUE, StrEnd(ts, i) + 1, Node("Constant", StrValue(ts, i, StrEnd(ts, i)), <<>>))
      [] Kind(ts, i) = "(" ->
            IF Kind(ts, i + 1) = ")"
            THEN Res(TRUE, i + 2, Node("Tuple", <<>>, <<>>))
            ELSE CloseParen(ts, ParseExpr(ts, i + 1))
      [] OTHER -> SyntaxErr

\* the ")" that ends the call of func with the argument a
CallWithArg(ts, func, a) ==
    IF a.ok /\ Kind(ts, a.pos) = ")"
    THEN ParseTrailers(ts, a.pos + 1, Node("Call", <<>>, <<func, a.node>>))
    ELSE SyntaxErr

\* trailer: "(" [expr] ")" | "." NAME
ParseTrailers(ts, i, node) ==
    CASE Kind(ts, i) = "(" ->
            IF Kind(ts, i + 1) = ")"
            THEN ParseTrailers(ts, i + 2, Node("Call", <<>>, <<node>>))
            ELSE CallWithArg(ts, node, ParseExpr(ts, i + 1))
      [] Kind(ts, i) = "." ->
            IF Kind(ts, i + 1) = "id"
            THEN ParseTrailers(ts, i + 2, Node("Attribute", ts[i + 1].v, <<node>>))
            ELSE SyntaxErr
      [] OTHER -> Res(TRUE, i, node)

AfterAtom(ts, a) == IF a.ok THEN ParseTrailers(ts, a.pos, a.node) ELSE SyntaxErr

ParseExpr(ts, i) == AfterAtom(ts, ParseAtom(ts, i))

RECURSIVE DottedEnd(_, _)
DottedEnd(ts, i) ==
    IF Kind(ts, i + 1) = "." /\ Kind(ts, i + 2) = "id"
    THEN DottedEnd(ts, i + 2)
    ELSE i

\* the identifiers of the dotted name from token i to token j
RECURSIVE DottedName(_, _, _)
DottedName(ts, i, j) ==
    IF i > j THEN <<>> ELSE <<ts[i].v>> \o DottedName(ts, i + 2, j)

ExprStmt(e) ==
    IF e.ok THEN Res(TRUE, e.pos, Node("Expr", <<>>, <<e.node>>)) ELSE SyntaxErr

\* statement: "import" dotted_name | expr
ParseStmt(ts, i) ==
    CASE Kind(ts, i) = "kw" ->
            IF Kind(ts, i + 1) = "id"
            THEN Res(TRUE, DottedEnd(ts, i + 1) + 1,
                     Node("Import", DottedName(ts, i + 1, DottedEnd(ts, i + 1)), <<>>))
            ELSE SyntaxErr
      [] Kind(ts, i) = "indent" -> SyntaxErr
      [] OTHER -> ExprStmt(ParseExpr(ts, i))

RECURSIVE ParseModule(_, _, _)

\* after the statement s: a line end and the rest, or the end of the text
AfterStmt(ts, body, s) ==
    IF ~s.ok THEN SyntaxErr
    ELSE IF Kind(ts, s.pos) = "nl"
         THEN ParseModule(ts, s.pos + 1, Append(body, s.node))
         ELSE IF Kind(ts, s.pos) = "eof"
              THEN Res(TRUE, s.pos, Node("Module", <<>>, Append(body, s.node)))
              ELSE SyntaxErr

ParseModule(ts, i, body) ==
    IF Kind(ts, i) = "eof" THEN Res(TRUE, i, Node("Module", <<>>, body))
    ELSE AfterStmt(ts, body, ParseStmt(ts, i))

ast_parse(code) == ParseModule(Lex(code, 1, 0, TRUE, FALSE), 1, <<>>)

\* ast.walk: breadth first, children appended to the queue.
RECURSIVE ast_walk(_)
ast_walk(todo) ==
    IF todo = <<>> THEN <<>>
    ELSE <<Head(todo)>> \o ast_walk(Tail(todo) \o Head(todo).kids)

----------------------------------------------------------------------------
(* IncrementalLinter *)

NoError == [kind |-> "none", id |-> <<>>, code |-> <<>>]

\* LinterError(message, code); the message is kind plus the identifier it cites.
LinterError(kind, id, code) == [kind |-> kind, id |-> id, code |-> code]

\* node.func.id not in self.allowed_functions
IsAllowed(id, allowed) == Len(id) = 1 /\ id[1] \in allowed

IsNameCall(n) == n.t = "Call" /\ n.kids[1].t = "Name"

\* the raise of _check_function_calls, at the first disallowed call of the walk
RaiseFirst(bad, code) ==
    IF bad = <<>> THEN NoError ELSE LinterError("call", bad[1].kids[1].id, code)

CheckTree(tree, code, allowed) ==
    IF ~tree.ok THEN NoError
    ELSE RaiseFirst(SelectSeq(ast_walk(<<tree.node>>),
                        LAMBDA n : IsNameCall(n) /\ ~IsAllowed(n.kids[1].id, allowed)),
                    code)

_check_function_calls(code, allowed) == CheckTree(ast_parse(code), code, allowed)

\* The body of the for loop of validate_stream up to the yield, for the
\* buffer with the token already appended.
CheckBuffer(buf, allowed) ==
    IF ContainsImportText(lstrip(buf))
    THEN LinterError("import", <<>>, buf)
    ELSE IF ast_parse(buf).ok THEN _check_function_calls(buf, allowed) ELSE NoError

\* except Exception as e: raise LinterError(f"Final validation failed: {e}", ...)
FinalWrap(e, buf) ==
    IF e.kind = "none" THEN NoError ELSE LinterError("final_call", e.id, buf)

\* The final check of validate_stream, after the stream is exhausted.
FinalCheck(buf, allowed) ==
    IF ~ast_parse(buf).ok
    THEN LinterError("final_syntax", <<>>, buf)
    ELSE FinalWrap(_check_function_calls(buf, allowed), buf)

\* a validate_stream that yields the token before it checks the buffer
YieldOrRaise_YieldingFirst(token, err) ==
    /\ linter_error' = err
    /\ action_script_parts' = Append(action_script_parts, token)
    /\ pc' = IF err.kind = "none" THEN "validating" ELSE "except_linter"

\* The token is yielded and received by the consumer's loop body, or the
\* error err is raised.
YieldOrRaise(token, err) ==
    /\ linter_error' = err
    /\ IF err.kind = "none"
       THEN /\ action_script_parts' = Append(action_script_parts, token)
            /\ pc' = "validating"
       ELSE /\ action_script_parts' = action_script_parts
            /\ pc' = "except_linter"

\* One iteration of  for token in token_stream  (incremental_linter.py:29-51)
\* together with the consumer's loop body (main.py:107-109).
ValidateToken ==
    /\ pc = "validating"
    /\ script_stream # <<>>
    /\ script_stream' = Tail(script_stream)
    /\ consumed' = Append(consumed, Head(script_stream))
    /\ buffer' = buffer \o Head(script_stream)
    /\ YieldOrRaise(Head(script_stream),
                    CheckBuffer(buffer \o Head(script_stream), allowed_functions))
    /\ UNCHANGED <<allowed_functions, loopVars>>

\* a final check whose error does not stop the script from being executed
EndOrRaise_Ignoring(err) ==
    /\ linter_error' = err
    /\ pc' = "validated"

EndOrRaise(err) ==
    /\ linter_error' = err
    /\ pc' = IF err.kind = "none" THEN "validated" ELSE "except_linter"

\* The stream is exhausted: the final check (incremental_linter.py:53-58).
ValidateFinal ==
    /\ pc = "validating"
    /\ script_stream = <<>>
    /\ EndOrRaise(FinalCheck(buffer, allowed_functions))
    /\ UNCHANGED <<allowed_functions, script_stream, consumed, buffer,
                   action_script_parts, loopVars>>

----------------------------------------------------------------------------
(* GlobalState *)

\* update_state written as a setdefault: an entry already present is kept
update_state_KeepFirst(st, key, value) ==
    IF key \in DOMAIN st THEN st
    ELSE [k \in DOMAIN st \cup {key} |-> IF k = key THEN value ELSE st[k]]

update_state(st, key, value) ==
    [k \in DOMAIN st \cup {key} |-> IF k = key THEN value ELSE st[k]]

\* a delete_key that reports success whether or not the key was there
delete_key_AlwaysTrue(st, key) ==
    IF key \in DOMAIN st
    THEN [store |-> [k \in DOMAIN st \ {key} |-> st[k]], ret |-> TRUE]
    ELSE [store |-> st, ret |-> TRUE]

\* delete_key: the store afterwards and the flag returned.
delete_key(st, key) ==
    IF key \in DOMAIN st
    THEN [store |-> [k \in DOMAIN st \ {key} |-> st[k]], ret |-> TRUE]
    ELSE [store |-> st, ret |-> FALSE]

----------------------------------------------------------------------------
(* Python values of a running script, and the core functions and tools     *)

Val(t, v) == [t |-> t, v |-> v]

None == Val("none", <<>>)

\* What a call, or a whole execution, ends with: nothing raised, a control
\* flow exception, or any other exception.
NoSignal == [type |-> "none", value |-> None]

Signal(type, value) == [type |-> type, value |-> value]

Exception(name) == Signal("Exception", Val("exc", <<name>>))

\* The outcome of a callable: the value returned or the exception raised,
\* and the store as the callable left it.
Outcome(ret, sig, st) == [ret |-> ret, sig |-> sig, store |-> st]

\* The key a Python value denotes when looked up in the store's dict.
KeyOf(val) ==
    IF val.t = "str" /\ val.v = <<"sK">> THEN "search_web" ELSE "<other>"

\* dicts (tool results) are unhashable
Hashable(val) == val.t # "result"

respond(args, st) ==
    IF Len(args) # 1 THEN Outcome(None, Exception("TypeError"), st)
    ELSE Outcome(None, Signal("RespondException", args[1]), st)

continue_turn(args, st) ==
    IF Len(args) # 0 THEN Outcome(None, Exception("TypeError"), st)
    ELSE Outcome(None, Signal("ContinueTurnException", None), st)

\* reflect returning the analysis it logged instead of None
reflect_Returning(args, st) ==
    IF Len(args) # 1 THEN Outcome(None, Exception("TypeError"), st)
    ELSE Outcome(args[1], NoSignal, st)

reflect(args, st) ==
    IF Len(args) # 1 THEN Outcome(None, Exception("TypeError"), st)
    ELSE Outcome(None, NoSignal, st)

DeleteOutcome(d) ==
    Outcome(Val("bool", <<IF d.ret THEN "True" ELSE "False">>), NoSignal, d.store)

\* functools.partial(core_functions.delete_state_key, self.global_state)
delete_state_key(args, st) ==
    IF Len(args) # 1 \/ ~Hashable(args[1])
    THEN Outcome(None, Exception("TypeError"), st)
    ELSE DeleteOutcome(delete_key(st, KeyOf(args[1])))

\* tool_definitions.search_web: one of two fixed results, chosen by the query.
search_web(args, st) ==
    IF Len(args) # 1 THEN Outcome(None, Exception("TypeError"), st)
    ELSE IF args[1].t # "str" THEN Outcome(None, Exception("AttributeError"), st)
    ELSE IF \E i \in 1..Len(args[1].v) : args[1].v[i] = "sF"
         THEN Outcome(Val("result", <<"Paris">>), NoSignal, st)
         ELSE Outcome(Val("result", <<"Example">>), NoSignal, st)

\* The callable registered under a name of the execution scope.
Handler(name, args, st) ==
    CASE name = "respond" -> respond(args, st)
      [] name = "continue_turn" -> continue_turn(args, st)
      [] name = "reflect" -> reflect(args, st)
      [] name = "delete_state_key" -> delete_state_key(args, st)
      [] name = "search_web" -> search_web(args, st)

----------------------------------------------------------------------------
(* ActionScriptExecutionEnvironment *)

\* _create_execution_scope: the tools and the core functions, by name.
execution_scope == ToolNames \cup CoreNames

\* Names exec resolves in the builtins it adds to the globals it is given.
Builtins == {"open"}

\* The entry the wrapper writes; the timestamp and the uuid of the metadata
\* are not modelled.
StateEntry(result) == [result |-> result, metadata |-> "turn"]

\* a wrapper without the test  result is not None
Wrapped_StoringNone(tool_name, r) ==
    IF r.sig.type # "none" THEN r
    ELSE Outcome(r.ret, r.sig, update_state(r.store, tool_name, StateEntry(r.ret)))

\* the wrapper, after func returned or raised r
Wrapped(tool_name, r) ==
    IF r.sig.type # "none" THEN r
    ELSE IF r.ret # None
         THEN Outcome(r.ret, r.sig, update_state(r.store, tool_name, StateEntry(r.ret)))
         ELSE r

\* _wrap_tool_call(tool_name, func).wrapper
_wrap_tool_call(tool_name, args, st) == Wrapped(tool_name, Handler(tool_name, args, st))

\* The interpreter state of one exec: the store, the host, the names the
\* script has bound by import, what has been raised, and the log of wrapper
\* invocations.
Env(st, hst, mods, sig, log) ==
    [store |-> st, host |-> hst, mods |-> mods, sig |-> sig, log |-> log]

Ev(env, val) == [env |-> env, val |-> val]

Raise(env, sig) == Ev([env EXCEPT !.sig = sig], None)

\* a wrapper whose control signal does not unwind the script: the statements
\* after the control primitive still run
Invoked_Resuming(name, args, env, r) ==
    Ev([env EXCEPT !.store = r.store,
                   !.sig = IF r.sig.type = "Exception" THEN r.sig ELSE NoSignal,
                   !.log = Append(@, [cap |-> name, arg |-> args, ret |-> r.ret,
                                      sig |-> r.sig.type, exc |-> r.sig.value])],
       r.ret)

\* the interpreter state after the wrapper of name ended with r
Invoked(name, args, env, r) ==
    Ev([env EXCEPT !.store = r.store,
                   !.sig = r.sig,
                   !.log = Append(@, [cap |-> name, arg |-> args, ret |-> r.ret,
                                      sig |-> r.sig.type, exc |-> r.sig.value])],
       r.ret)

\* Calling a value with the evaluated arguments.
Apply(f, args, env) ==
    CASE f.t = "func" ->
            Invoked(f.v[1], args, env, _wrap_tool_call(f.v[1], args, env.store))
      [] f.t = "builtin" ->
            \* open(path): a file handle when the host has the file
            IF Len(args) = 1 /\ args[1].t = "str"
            THEN IF args[1].v \in env.host.files
                 THEN Ev(env, Val("opaque", <<>>))
                 ELSE Raise(env, Exception("FileNotFoundError"))
            ELSE Raise(env, Exception("TypeError"))
      [] f.t = "opaque" -> Ev(env, Val("opaque", <<>>))
      [] OTHER -> Raise(env, Exception("TypeError"))

\* value.attr, the value evaluated to o
AttributeOf(o) ==
    IF o.env.sig.type # "none" THEN o
    ELSE IF o.val.t \in {"module", "opaque"}
         THEN Ev(o.env, Val("opaque", <<>>))
         ELSE Raise(o.env, Exception("AttributeError"))

\* the call of f with the argument evaluated to a
CallArg(f, a) ==
    IF a.env.sig.type # "none" THEN a ELSE Apply(f.val, <<a.val>>, a.env)

RECURSIVE Eval(_, _)

\* the call node, its func evaluated to f
CallOf(node, f) ==
    IF f.env.sig.type # "none" THEN f
    ELSE IF Len(node.kids) = 1 THEN Apply(f.val, <<>>, f.env)
    ELSE CallArg(f, Eval(node.kids[2], f.env))

Eval(node, env) ==
    CASE node.t = "Name" ->
            IF node.id \in env.mods THEN Ev(env, Val("module", node.id))
            ELSE IF Len(node.id) = 1 /\ node.id[1] \in execution_scope
                 THEN Ev(env, Val("func", node.id))
            ELSE IF Len(node.id) = 1 /\ node.id[1] \in Builtins
                 THEN Ev(env, Val("builtin", node.id))
            ELSE Raise(env, Exception("NameError"))
      [] node.t = "Constant" ->
            IF node.id = <<"...">> THEN Ev(env, Val("ellipsis", <<>>))
                                   ELSE Ev(env, Val("str", node.id))
      [] node.t = "Tuple" -> Ev(env, Val("tuple", <<>>))
      [] node.t = "Attribute" -> AttributeOf(Eval(node.kids[1], env))
      [] node.t = "Call" -> CallOf(node, Eval(node.kids[1], env))

\* One statement: an import binds the module when the host has it, an
\* expression statement is evaluated and its value dropped.
ExecStmt(stmt, env) ==
    IF stmt.t = "Import"
    THEN IF stmt.id \in env.host.modules
         THEN [env EXCEPT !.mods = @ \cup {stmt.id[1]}]
         ELSE [env EXCEPT !.sig = Exception("ModuleNotFoundError")]
    ELSE Eval(stmt.kids[1], env).env

RECURSIVE ExecBody(_, _)
ExecBody(body, env) ==
    IF body = <<>> \/ env.sig.type # "none" THEN env
    ELSE ExecBody(Tail(body), ExecStmt(Head(body), env))

IsControlFlow(sig) == sig.type \in {"RespondException", "ContinueTurnException"}

\* exec run as a transaction: the store is put back when the script fails
exec_RollingBack(tree, st, hst) ==
    IF ~tree.ok
    THEN Env(st, hst, {}, Exception("SyntaxError"), <<>>)
    ELSE IF ExecBody(tree.node.kids, Env(st, hst, {}, NoSignal, <<>>)).sig.type = "Exception"
         THEN [ExecBody(tree.node.kids, Env(st, hst, {}, NoSignal, <<>>)) EXCEPT !.store = st]
         ELSE ExecBody(tree.node.kids, Env(st, hst, {}, NoSignal, <<>>))

\* exec(script, wrapped_scope)
exec(tree, st, hst) ==
    IF ~tree.ok
    THEN Env(st, hst, {}, Exception("SyntaxError"), <<>>)
    ELSE ExecBody(tree.node.kids, Env(st, hst, {}, NoSignal, <<>>))

\* execute_script without its  except ControlFlowException: raise  clause
Reraise_Everything(env) ==
    [store |-> env.store,
     log |-> env.log,
     raised |-> IF env.sig.type = "none"
                THEN env.sig
                ELSE Signal("ScriptExecutionError", env.sig.value)]

\* the except clauses of execute_script: a control flow exception is
\* re-raised, any other exception becomes a ScriptExecutionError.
\* execute_script with an except clause that swallows the failure
Reraise_Swallowing(env) ==
    [store |-> env.store,
     log |-> env.log,
     raised |-> IF IsControlFlow(env.sig) THEN env.sig ELSE NoSignal]

Reraise(env) ==
    [store |-> env.store,
     log |-> env.log,
     raised |-> IF env.sig.type = "none" \/ IsControlFlow(env.sig)
                THEN env.sig
                ELSE Signal("ScriptExecutionError", env.sig.value)]

execute_script(script, st, hst) == Reraise(exec(ast_parse(script), st, hst))

----------------------------------------------------------------------------
(* AgentController *)

max_correction_attempts == 3

Message(role, kind, detail) == [role |-> role, kind |-> kind, detail |-> detail]

\* _get_few_shot_examples, kept as its last message (an assistant's script).
few_shot_examples == <<Message("assistant", "few_shot", <<>>)>>

\* _construct_system_prompt: the part of the prompt that varies is the
\* pretty-printed store.
_construct_system_prompt(st) == Message("user", "system_prompt", st)

\* _inject_initial_state
InitialState ==
    [k \in {"project_file_list"} |->
        [result |-> Val("str", <<"files">>), metadata |-> "system_initialization"]]

\* str(e) of a LinterError: the message alone; e.code is not part of it.
LinterFeedback(e) ==
    Message("user", "syntax_error_feedback", [reason |-> e.kind, id |-> e.id])

\* str(e) of a ScriptExecutionError: the cause.
ExecutionFeedback(cause) == Message("user", "execution_feedback", cause)

NoSignalCause == Val("exc", <<"completed without respond or continue_turn">>)

Pop(msgs) == SubSeq(msgs, 1, Len(msgs) - 1)

\* run without the check of main.py:151-153
AfterAttempts_Unchecked(tip, attempts) == tip

\* main.py:151-153, reached when the inner loop is left.
AfterAttempts(tip, attempts) ==
    IF attempts >= max_correction_attempts THEN FALSE ELSE tip

\* The scripts the generator may answer with, as token streams.
stReflect == <<"reflect", "(", "sX", ")", "NL">>

stSearch == <<"search_web", "(", "sX", ")", "NL">>

stSearchF == <<"search_web", "(", "sF", ")", "NL">>

stBadSearch == <<"search_web", "(", ")", "NL">>

\* search_web(()): the handler fails in query.lower()
stFailSearch == <<"search_web", "(", "(", ")", ")", "NL">>

stDelete == <<"delete_state_key", "(", "sK", ")", "NL">>

stRespond == <<"respond", "(", "sX", ")">>

stContinue == <<"continue_turn", "(", ")">>

Scripts ==
    { <<stReflect, stSearch, stRespond>>,
      <<stReflect, stRespond>>,
      <<stReflect>>,
      <<<<"foo", "(", ")">>>>,
      <<<<"reflect", "(">>, <<"foo", "(", ")">>, <<")">>>>,
      <<<<"import", "SP", "foo", "NL">>, stRespond>>,
      <<<<"import", "TAB", "foo", "NL">>, stRespond>>,
      <<stSearchF, stContinue>>,
      <<stSearch, stDelete, stRespond>>,
      <<stDelete, stRespond>>,
      <<stSearch, stBadSearch, stRespond>>,
      <<stSearchF, stFailSearch, stRespond>>,
      <<<<"open", "NL">>, stRespond>>,
      <<stSearch, stSearchF, stRespond>>,
      <<stRespond, stSearch>>,
      <<stRespond, <<"NL">>, stSearch>>,
      <<<<"reflect", "(">>>> }

\* run, up to the outer loop (main.py:85-94)
RunBegin ==
    /\ pc = "run"
    /\ messages' = few_shot_examples \o <<_construct_system_prompt(global_state)>>
    /\ turn_in_progress' = TRUE
    /\ pc' = "turn_loop"
    /\ UNCHANGED <<lintVars, correction_attempts, action_script, raised, exec_log,
                   global_state, conversation_history, consolidated, requests,
                   generated, host>>

\* while turn_in_progress: correction_attempts = 0 (main.py:95-97)
TurnLoop ==
    /\ pc = "turn_loop"
    /\ turn_in_progress
    /\ correction_attempts' = 0
    /\ requests' = 0
    /\ pc' = "attempt_loop"
    /\ UNCHANGED <<lintVars, turn_in_progress, messages, action_script, raised,
                   exec_log, global_state, conversation_history, consolidated,
                   generated, host>>

\* the outer loop ends and run returns
RunReturn ==
    /\ pc = "turn_loop"
    /\ ~turn_in_progress
    /\ pc' = "done"
    /\ UNCHANGED <<lintVars, loopVars>>

\* The inner loop's condition holds: a generation request (main.py:99-106),
\* and the start of validate_stream (incremental_linter.py:28).
Generate ==
    /\ pc = "attempt_loop"
    /\ correction_attempts < max_correction_attempts
    /\ generated < MaxRequests
    /\ \E s \in Scripts : script_stream' = s
    /\ consumed' = <<>>
    /\ buffer' = <<>>
    /\ action_script_parts' = <<>>
    /\ action_script' = <<>>
    /\ linter_error' = NoError
    /\ raised' = NoSignal
    /\ exec_log' = <<>>
    /\ requests' = requests + 1
    /\ generated' = generated + 1
    /\ pc' = "validating"
    /\ UNCHANGED <<allowed_functions, correction_attempts, turn_in_progress,
                   messages, global_state, conversation_history, consolidated,
                   host>>

\* The inner loop's condition fails (main.py:99, 151-153)
Abort ==
    /\ pc = "attempt_loop"
    /\ correction_attempts >= max_correction_attempts
    /\ turn_in_progress' = AfterAttempts(turn_in_progress, correction_attempts)
    /\ pc' = "turn_loop"
    /\ UNCHANGED <<lintVars, correction_attempts, messages, action_script, raised,
                   exec_log, global_state, conversation_history, consolidated,
                   requests, generated, host>>

\* a LinterError handler that does not count the attempt
HandleLinterError_NotCounting ==
    /\ pc = "except_linter"
    /\ messages' = Append(messages, LinterFeedback(linter_error))
    /\ pc' = "attempt_loop"
    /\ UNCHANGED <<lintVars, correction_attempts, turn_in_progress, action_script,
                   raised, exec_log, global_state, conversation_history,
                   consolidated, requests, generated, host>>

\* except LinterError (main.py:120-125)
HandleLinterError ==
    /\ pc = "except_linter"
    /\ correction_attempts' = correction_attempts + 1
    /\ messages' = Append(messages, LinterFeedback(linter_error))
    /\ pc' = "attempt_loop"
    /\ UNCHANGED <<lintVars, turn_in_progress, action_script, raised, exec_log,
                   global_state, conversation_history, consolidated, requests,
                   generated, host>>

\* what execute_script leaves behind
Executed(r) ==
    /\ global_state' = r.store
    /\ exec_log' = r.log
    /\ raised' = r.raised

\* The stream was validated: join, record the script, execute it (main.py:110-115)
Execute ==
    /\ pc = "validated"
    /\ action_script' = Flatten(action_script_parts)
    /\ messages' = Append(messages, Message("assistant", "script", Flatten(action_script_parts)))
    /\ Executed(execute_script(Flatten(action_script_parts), global_state, host))
    /\ pc' = "executed"
    /\ UNCHANGED <<lintVars, correction_attempts, turn_in_progress,
                   conversation_history, consolidated, requests, generated,
                   host>>

\* except ScriptExecutionError (main.py:127-134), for the error in hand
ScriptExecutionErrorHandler(msgs, cause) ==
    Append(IF msgs # <<>> /\ msgs[Len(msgs)].role = "assistant" THEN Pop(msgs) ELSE msgs,
           ExecutionFeedback(cause))

\* run without the raise of main.py:117-118: a script that returns ends the turn
FallThrough_EndsTurn ==
    /\ pc = "executed"
    /\ raised.type = "none"
    /\ turn_in_progress' = FALSE
    /\ pc' = "turn_loop"
    /\ UNCHANGED <<lintVars, correction_attempts, messages, action_script, raised,
                   exec_log, global_state, conversation_history, consolidated,
                   requests, generated, host>>

\* execute_script returned: main.py:117-118 raise the ScriptExecutionError
\* that main.py:127-134 handle.
FallThrough ==
    /\ pc = "executed"
    /\ raised.type = "none"
    /\ correction_attempts' = correction_attempts + 1
    /\ messages' = ScriptExecutionErrorHandler(Pop(messages), NoSignalCause)
    /\ pc' = "attempt_loop"
    /\ UNCHANGED <<lintVars, turn_in_progress, action_script, raised, exec_log,
                   global_state, conversation_history, consolidated, requests,
                   generated, host>>

\* execute_script raised ScriptExecutionError (main.py:127-134)
HandleScriptExecutionError ==
    /\ pc = "executed"
    /\ raised.type = "ScriptExecutionError"
    /\ correction_attempts' = correction_attempts + 1
    /\ messages' = ScriptExecutionErrorHandler(messages, raised.value)
    /\ pc' = "attempt_loop"
    /\ UNCHANGED <<lintVars, turn_in_progress, action_script, raised, exec_log,
                   global_state, conversation_history, consolidated, requests,
                   generated, host>>

\* a RespondException handler that leaves the turn in progress
HandleRespond_KeepingTurn ==
    /\ pc = "executed"
    /\ raised.type = "RespondException"
    /\ conversation_history' = Append(conversation_history, [agent |-> raised.value])
    /\ consolidated' = Append(consolidated, conversation_history')
    /\ turn_in_progress' = AfterAttempts(turn_in_progress, correction_attempts)
    /\ pc' = "turn_loop"
    /\ UNCHANGED <<lintVars, correction_attempts, messages, action_script, raised,
                   exec_log, global_state, requests, generated, host>>

\* except RespondException (main.py:136-141, 151-153)
HandleRespond ==
    /\ pc = "executed"
    /\ raised.type = "RespondException"
    /\ conversation_history' = Append(conversation_history, [agent |-> raised.value])
    /\ consolidated' = Append(consolidated, conversation_history')
    /\ turn_in_progress' = AfterAttempts(FALSE, correction_attempts)
    /\ pc' = "turn_loop"
    /\ UNCHANGED <<lintVars, correction_attempts, messages, action_script, raised,
                   exec_log, global_state, requests, generated, host>>

\* the entry main.py:145 adds to the conversation history
InternalUpdate == [agent |-> Val("str", <<"[Internal State Update]">>)]

\* a ContinueTurnException handler that also consolidates the history
HandleContinueTurn_Consolidating ==
    /\ pc = "executed"
    /\ raised.type = "ContinueTurnException"
    /\ conversation_history' = Append(conversation_history, InternalUpdate)
    /\ consolidated' = Append(consolidated, conversation_history')
    /\ messages' = Append(messages, _construct_system_prompt(global_state))
    /\ turn_in_progress' = AfterAttempts(turn_in_progress, correction_attempts)
    /\ pc' = "turn_loop"
    /\ UNCHANGED <<lintVars, correction_attempts, action_script, raised, exec_log,
                   global_state, requests, generated, host>>

\* a ContinueTurnException handler that sends the prompt built at the start
\* of run again
HandleContinueTurn_StalePrompt ==
    /\ pc = "executed"
    /\ raised.type = "ContinueTurnException"
    /\ conversation_history' = Append(conversation_history, InternalUpdate)
    /\ messages' = Append(messages, messages[Len(few_shot_examples) + 1])
    /\ turn_in_progress' = AfterAttempts(turn_in_progress, correction_attempts)
    /\ pc' = "turn_loop"
    /\ UNCHANGED <<lintVars, correction_attempts, action_script, raised, exec_log,
                   global_state, consolidated, requests, generated, host>>

\* except ContinueTurnException (main.py:143-149, 151-153)
HandleContinueTurn ==
    /\ pc = "executed"
    /\ raised.type = "ContinueTurnException"
    /\ conversation_history' = Append(conversation_history, InternalUpdate)
    /\ messages' = Append(messages, _construct_system_prompt(global_state))
    /\ turn_in_progress' = AfterAttempts(turn_in_progress, correction_attempts)
    /\ pc' = "turn_loop"
    /\ UNCHANGED <<lintVars, correction_attempts, action_script, raised, exec_log,
                   global_state, consolidated, requests, generated, host>>

Init ==
    /\ pc = "run"
    /\ allowed_functions = CoreNames \cup ToolNames
    /\ script_stream = <<>>
    /\ consumed = <<>>
    /\ buffer = <<>>
    /\ action_script_parts = <<>>
    /\ linter_error = NoError
    /\ correction_attempts = 0
    /\ turn_in_progress = FALSE
    /\ messages = <<>>
    /\ action_script = <<>>
    /\ raised = NoSignal
    /\ exec_log = <<>>
    /\ global_state = InitialState
    /\ conversation_history = <<>>
    /\ consolidated = <<>>
    /\ requests = 0
    /\ generated = 0
    /\ host \in [modules : SUBSET {<<<<"foo">>>>}, files : {{}}]

Next ==
    \/ RunBegin
    \/ TurnLoop
    \/ RunReturn
    \/ Generate
    \/ Abort
    \/ ValidateToken
    \/ ValidateFinal
    \/ HandleLinterError
    \/ Execute
    \/ FallThrough
    \/ HandleScriptExecutionError
    \/ HandleRespond
    \/ HandleContinueTurn

Spec == Init /\ [][Next]_vars

----------------------------------------------------------------------------
(* validate_stream alone, on every stream of at most MaxTokens tokens      *)

LintTokens ==
    { <<"reflect", "(">>, <<")">>, <<"foo", "(", ")">>, <<"NL">>,
      <<"import">>, <<"SP", "foo">>, <<"TAB", "foo">>,
      <<"foo", ".", "foo", "(", ")">>, <<"open", "(", ")">>, <<"sI">> }

LintStreams ==
    UNION { [1..n -> LintTokens] : n \in 0..MaxTokens }

InitLint ==
    /\ pc = "validating"
    /\ allowed_functions \in {CoreNames \cup ToolNames,
                               CoreNames \cup ToolNames \cup {"open"}}
    /\ script_stream \in LintStreams
    /\ consumed = <<>>
    /\ buffer = <<>>
    /\ action_script_parts = <<>>
    /\ linter_error = NoError
    /\ correction_attempts = 0
    /\ turn_in_progress = TRUE
    /\ messages = <<>>
    /\ action_script = <<>>
    /\ raised = NoSignal
    /\ exec_log = <<>>
    /\ global_state = InitialState
    /\ conversation_history = <<>>
    /\ consolidated = <<>>
    /\ requests = 1
    /\ generated = 1
    /\ host = [modules |-> {}, files |-> {}]

NextLint == ValidateToken \/ ValidateFinal

SpecLint == InitLint /\ [][NextLint]_vars

----------------------------------------------------------------------------
(* Vocabulary of the claims about validate_stream *)

\* The whole stream the generator holds, as tokens and as text.
InputTokens == consumed \o script_stream

InputText == Flatten(InputTokens)

\* validate_stream has ended: by exhaustion ("validated") or by raising.
LintEnded == pc \in {"validated", "except_linter"}

LintAccepted == pc = "validated" /\ linter_error.kind = "none"

LintRaised == pc = "except_linter" /\ linter_error.kind # "none"

RECURSIVE CloseOf(_, _, _)
CloseOf(ts, j, depth) ==
    IF j > Len(ts) THEN 0
    ELSE IF ts[j].k = "(" THEN CloseOf(ts, j + 1, depth + 1)
    ELSE IF ts[j].k = ")"
         THEN (IF depth = 1 THEN j ELSE CloseOf(ts, j + 1, depth - 1))
         ELSE CloseOf(ts, j + 1, depth)

\* A complete call  name( ... )  of a bare name, read off the token sequence.
BareCallAt(ts, i) ==
    /\ i + 1 <= Len(ts)
    /\ ts[i].k = "id"
    /\ (i = 1 \/ ts[i - 1].k # ".")
    /\ ts[i + 1].k = "("
    /\ CloseOf(ts, i + 2, 1) > 0

\* The text holds a syntactically complete call of a bare name outside the
\* allowed set.
ForeignCallComplete(text, allowed) ==
    LET ts == Lex(text, 1, 0, TRUE, FALSE)
    IN  \E i \in 1..Len(ts) : BareCallAt(ts, i) /\ ~IsAllowed(ts[i].v, allowed)

\* The call expressions of a text that parses.
CallNodes(text) ==
    SelectSeq(ast_walk(<<ast_parse(text).node>>), LAMBDA n : n.t = "Call")

\* The target of the call is a name of the allowed set.
TargetAllowed(n, allowed) ==
    n.kids[1].t = "Name" /\ IsAllowed(n.kids[1].id, allowed)

\* The target of the call is a name, bare or dotted, outside the allowed set.
TargetForeign(n, allowed) ==
    \/ n.kids[1].t = "Attribute"
    \/ n.kids[1].t = "Name" /\ ~IsAllowed(n.kids[1].id, allowed)

\* The text introduces module loading (an import statement) or opens a file
\* handle (a call of open).
HasForbiddenConstruct(text) ==
    LET ts == Lex(text, 1, 0, TRUE, FALSE)
    IN  \E i \in 1..Len(ts) :
            \/ ts[i].k = "kw"
            \/ BareCallAt(ts, i) /\ ts[i].v = <<"open">>

\* The text is a well-formed script with at least one call.
WellFormed(text) == ast_parse(text).ok /\ CallNodes(text) # <<>>

----------------------------------------------------------------------------
(* Claims about validate_stream, under SpecLint *)

\* C1: a well-formed script with no forbidden construct whose call
\* expressions all target allowed names is yielded whole, token by token,
\* unchanged and in order, and validate_stream ends by exhaustion without a
\* LinterError.
C1_PassThrough ==
    (/\ LintEnded
     /\ WellFormed(InputText)
     /\ ~HasForbiddenConstruct(InputText)
     /\ \A i \in 1..Len(CallNodes(InputText)) :
            TargetAllowed(CallNodes(InputText)[i], allowed_functions))
        => (LintAccepted /\ action_script_parts = InputTokens)

\* C2: a well-formed script with a call expression whose target name is not
\* in the allowed set never ends validate_stream by exhaustion: a LinterError
\* is raised.
C2_ForeignCallRaises ==
    (/\ LintEnded
     /\ WellFormed(InputText)
     /\ \E i \in 1..Len(CallNodes(InputText)) :
            TargetForeign(CallNodes(InputText)[i], allowed_functions))
        => LintRaised

\* C3: in a well-formed script, once the tokens consumed hold a syntactically
\* complete call of an unregistered name, no further token is consumed,
\* also when the call sits inside an expression that is still open.
C3_RaisedAtCompletion ==
    WellFormed(InputText) =>
        \A n \in 0..(Len(consumed) - 1) :
            ~ForeignCallComplete(Flatten(SubSeq(consumed, 1, n)), allowed_functions)

\* C5: a stream that introduces module loading or opens a file handle is
\* rejected by validate_stream whatever the allowed set holds.
C5_ForbiddenRejected ==
    (LintEnded /\ HasForbiddenConstruct(InputText)) => LintRaised

----------------------------------------------------------------------------
(* Vocabulary of the claims about execute_script and the correction loop *)

Statements(script) == ast_parse(script).node.kids

\* The statement is the call  name(<literal>)  of a bare name.
IsCallOf(stmt, name) ==
    /\ stmt.t = "Expr"
    /\ stmt.kids[1].t = "Call"
    /\ stmt.kids[1].kids[1] = Node("Name", <<name>>, <<>>)
    /\ Len(stmt.kids[1].kids) = 2
    /\ stmt.kids[1].kids[2].t = "Constant"

\* The script is one or more reflect(...) statements and then respond(<literal>).
ReflectThenRespond(script) ==
    /\ ast_parse(script).ok
    /\ Len(Statements(script)) >= 2
    /\ IsCallOf(Statements(script)[Len(Statements(script))], "respond")
    /\ \A i \in 1..(Len(Statements(script)) - 1) :
            IsCallOf(Statements(script)[i], "reflect")

\* The literal handed to the script's last call.
LastArgument(script) ==
    Val("str", Statements(script)[Len(Statements(script))].kids[1].kids[2].id)

\* The step of AgentController.run that runs execute_script.
ExecuteStep == pc = "validated" /\ pc' = "executed"

\* Invocations of the capability c that returned a non-empty result.
Returns(log, c) ==
    { i \in 1..Len(log) : log[i].cap = c /\ log[i].sig = "none" /\ log[i].ret # None }

Latest(S) == CHOOSE i \in S : \A j \in S : j <= i

\* After invocation i, the script deleted the key c.
DeletedAfter(log, c, i) ==
    \E j \in (i + 1)..Len(log) :
        /\ log[j].cap = "delete_state_key"
        /\ log[j].sig = "none"
        /\ KeyOf(log[j].arg[1]) = c

----------------------------------------------------------------------------
(* Claims about execute_script and the correction loop, under Spec *)

\* C4: a script that contains an import statement is never executed.
C4_ImportNeverExecuted ==
    pc = "executed" =>
        \A i \in 1..Len(Statements(action_script)) :
            Statements(action_script)[i].t # "Import"

\* C6 as stated: after execute_script, for every capability the script
\* invoked with a non-empty result, the store holds an entry under the
\* capability's name whose result is the value returned by the latest such
\* invocation.
C6_AsStated ==
    pc = "executed" =>
        \A c \in execution_scope :
            Returns(exec_log, c) # {} =>
                /\ c \in DOMAIN global_state
                /\ global_state[c].result = exec_log[Latest(Returns(exec_log, c))].ret

\* C6, amended: the same, unless the script deleted the capability's key
\* with delete_state_key after that latest invocation.
C6_LatestResult ==
    pc = "executed" =>
        \A c \in execution_scope :
            (/\ Returns(exec_log, c) # {}
             /\ ~DeletedAfter(exec_log, c, Latest(Returns(exec_log, c))))
                => /\ c \in DOMAIN global_state
                   /\ global_state[c].result = exec_log[Latest(Returns(exec_log, c))].ret

\* search_web returned twice with different results and the store holds the
\* second one.
C6_Witness ==
    /\ pc = "executed"
    /\ Cardinality(Returns(exec_log, "search_web")) = 2
    /\ exec_log[1].ret # exec_log[2].ret
    /\ global_state["search_web"].result = exec_log[2].ret

\* C7: executing a script of reflect(...) statements followed by
\* respond("X") raises RespondException carrying "X" and leaves the store as
\* it was before the execution.
C7_ReflectRespond ==
    [][(ExecuteStep /\ ReflectThenRespond(action_script'))
            => /\ raised' = Signal("RespondException", LastArgument(action_script'))
               /\ global_state' = global_state]_vars

\* reflect and respond were executed on a store that holds a tool result.
C7_Witness ==
    /\ pc = "executed"
    /\ ReflectThenRespond(action_script)
    /\ raised = Signal("RespondException", Val("str", <<"sX">>))
    /\ Len(exec_log) = 2
    /\ "search_web" \in DOMAIN global_state

\* C8: when execute_script returns without a control signal the loop takes
\* the ScriptExecutionError path: the attempt counter goes up by one, feedback
\* is appended, the turn is not ended as responded or continuing, and the
\* loop then issues a new generation request or, at the bound, aborts.
C8_FallThroughIsError ==
    [][/\ (pc = "executed" /\ raised.type = "none")
            => /\ pc' = "attempt_loop"
               /\ correction_attempts' = correction_attempts + 1
               /\ messages'[Len(messages')] = ExecutionFeedback(NoSignalCause)
               /\ UNCHANGED <<turn_in_progress, conversation_history, consolidated,
                              global_state>>
       /\ (pc = "attempt_loop" /\ raised.type = "none" /\ exec_log # <<>>)
            => IF correction_attempts < max_correction_attempts
               THEN pc' = "validating" /\ requests' = requests + 1
               ELSE pc' = "turn_loop" /\ ~turn_in_progress'
                        /\ UNCHANGED <<conversation_history, consolidated>>]_vars

\* a script ran every statement, raised nothing, and the loop is retrying
C8_Witness ==
    /\ pc = "attempt_loop"
    /\ raised.type = "none"
    /\ Len(exec_log) = 1
    /\ exec_log[1].cap = "reflect"
    /\ correction_attempts = 1
    /\ messages[Len(messages)] = ExecutionFeedback(NoSignalCause)

\* C9: at most max_correction_attempts generation requests are issued in one
\* generating phase; once the counter has reached the bound the loop is on
\* its way out: no further request, no response recorded, no memory
\* consolidation, turn_in_progress cleared, and run returns.
C9_AbortAtBound ==
    /\ requests <= max_correction_attempts
    /\ correction_attempts <= max_correction_attempts
    /\ correction_attempts = max_correction_attempts =>
            /\ requests = max_correction_attempts
            /\ pc \in {"attempt_loop", "turn_loop", "done"}
            /\ pc # "attempt_loop" => ~turn_in_progress
            /\ consolidated = <<>>
            /\ \A i \in 1..Len(conversation_history) :
                    conversation_history[i] = InternalUpdate

\* run has returned after three failed attempts, of both kinds
C9_Witness ==
    /\ pc = "done"
    /\ correction_attempts = max_correction_attempts
    /\ requests = max_correction_attempts
    /\ \E i \in 1..Len(messages) : messages[i].kind = "syntax_error_feedback"
    /\ \E i \in 1..Len(messages) : messages[i].kind = "execution_feedback"

\* C10: a control signal raised by a capability leaves execute_script as that
\* same signal, and the loop handles it as a response or a continuation: the
\* attempt counter is not touched and no error feedback is appended.
C10_ControlSignals ==
    [][/\ ExecuteStep =>
            \A i \in 1..Len(exec_log') :
                IsControlFlow(Signal(exec_log'[i].sig, None)) =>
                    /\ raised'.type = exec_log'[i].sig
                    /\ exec_log'[i].cap = "respond" => raised'.value = exec_log'[i].arg[1]
       /\ (pc = "executed" /\ IsControlFlow(raised)) =>
            /\ pc' = "turn_loop"
            /\ correction_attempts' = correction_attempts
            /\ \A i \in 1..Len(messages') : messages'[i].kind # "execution_feedback"
                    \/ (i <= Len(messages) /\ messages'[i] = messages[i])
            /\ IF raised.type = "RespondException"
               THEN /\ ~turn_in_progress'
                    /\ conversation_history'
                            = Append(conversation_history, [agent |-> raised.value])
                    /\ consolidated' = Append(consolidated, conversation_history')
               ELSE /\ turn_in_progress'
                    /\ conversation_history' = Append(conversation_history, InternalUpdate)
                    /\ consolidated' = consolidated]_vars

\* continue_turn was raised after a failed attempt and the turn goes on with
\* the counter where it was
C10_Witness ==
    /\ pc = "turn_loop"
    /\ raised.type = "ContinueTurnException"
    /\ turn_in_progress
    /\ correction_attempts = 1
    /\ conversation_history = <<InternalUpdate>>

----------------------------------------------------------------------------
(* Vocabulary of the claims about the store *)

\* The store after the invocation e acted on the store st: a delete_state_key
\* that returned removes its key, an invocation that returned a result writes
\* the entry under the capability's name, any other invocation writes nothing.
Effect(e, st) ==
    IF e.sig # "none" THEN st
    ELSE IF e.cap = "delete_state_key"
         THEN update_state(delete_key(st, KeyOf(e.arg[1])).store, e.cap, StateEntry(e.ret))
         ELSE IF e.ret # None THEN update_state(st, e.cap, StateEntry(e.ret)) ELSE st

\* The effects of the invocations of log, applied to st in the order of log.
RECURSIVE Replay(_, _)
Replay(log, st) ==
    IF log = <<>> THEN st ELSE Replay(Tail(log), Effect(Head(log), st))

ControlPrimitives == {"respond", "continue_turn"}

----------------------------------------------------------------------------
(* Claims about the store and the feedback, under Spec *)

\* C11: execute_script leaves the store as the invocations made it, one after
\* the other in the order of the script, also when the script failed at a
\* later statement; the ScriptExecutionError handler and the next generation
\* request leave the store as it is.
C11_NoRollback ==
    [][/\ ExecuteStep => global_state' = Replay(exec_log', global_state)
       /\ ~ExecuteStep => global_state' = global_state]_vars

\* the retry has begun after search_web("X") was committed and search_web()
\* failed
C11_Witness ==
    /\ pc = "validating"
    /\ requests = 2
    /\ messages[Len(messages)] = ExecutionFeedback(Val("exc", <<"TypeError">>))
    /\ "search_web" \in DOMAIN global_state
    /\ global_state["search_web"].result = Val("result", <<"Example">>)

\* C12: the invocation of respond or continue_turn that raised its signal is
\* the last invocation of the script: the store execute_script leaves is the
\* store the invocations before it made, no entry is ever stored under the
\* name of a control primitive, the signal reaches run, and the handler of the
\* signal leaves the store as it is.
C12_ControlEndsScript ==
    /\ [](DOMAIN global_state \cap ControlPrimitives = {})
    /\ [][/\ ExecuteStep =>
              \A i \in 1..Len(exec_log') :
                  exec_log'[i].sig \in {"RespondException", "ContinueTurnException"} =>
                      /\ i = Len(exec_log')
                      /\ exec_log'[i].cap \in ControlPrimitives
                      /\ raised'.type = exec_log'[i].sig
                      /\ global_state' = Replay(SubSeq(exec_log', 1, i - 1), global_state)
          /\ (pc = "executed" /\ IsControlFlow(raised)) => global_state' = global_state]_vars

\* respond("X") followed by search_web("X"): only respond was invoked
C12_Witness ==
    /\ pc = "executed"
    /\ action_script = Flatten(<<stRespond, <<"NL">>, stSearch>>)
    /\ raised.type = "RespondException"
    /\ Len(exec_log) = 1
    /\ exec_log[1].cap = "respond"
    /\ "search_web" \notin DOMAIN global_state

\* the message m carries the script text code
CarriesCode(m, code) ==
    \/ m.kind = "script" /\ m.detail = code
    \/ /\ m.kind \in {"syntax_error_feedback", "execution_feedback"}
       /\ "code" \in DOMAIN m.detail
       /\ m.detail.code = code

\* C13: after a LinterError the attempt counter has been increased and the
\* messages of the next generation request end with a feedback message that
\* carries the reason of the error and the rejected code (the buffer the
\* linter rejected).
C13_FeedbackCarriesCode ==
    (/\ pc = "attempt_loop"
     /\ linter_error # NoError
     /\ messages[Len(messages)].kind = "syntax_error_feedback") =>
        /\ correction_attempts >= 1
        /\ messages[Len(messages)].detail.reason = linter_error.kind
        /\ CarriesCode(messages[Len(messages)], linter_error.code)

\* C14: after a ScriptExecutionError the attempt counter has been increased
\* and the messages of the next generation request end with a feedback
\* message that cites the failure, the attempted script being carried by that
\* message or by the assistant's message before it.
C14_FeedbackCarriesScript ==
    (/\ pc = "attempt_loop"
     /\ messages[Len(messages)].kind = "execution_feedback") =>
        /\ correction_attempts >= 1
        /\ \/ CarriesCode(messages[Len(messages)], action_script)
           \/ CarriesCode(messages[Len(messages) - 1], action_script)

\* C15: the RespondException handler hands the conversation history, ending
\* with the message of respond, to consolidate_memory and ends the turn; it is
\* the only step that consolidates, it consolidates once, and no generation
\* request follows it.
C15_RespondEndsTurn ==
    [][/\ (pc = "executed" /\ raised.type = "RespondException") =>
              /\ consolidated = <<>>
              /\ consolidated' = <<conversation_history'>>
              /\ conversation_history'[Len(conversation_history')] = [agent |-> raised.value]
              /\ ~turn_in_progress'
              /\ pc' = "turn_loop"
       /\ ~(pc = "executed" /\ raised.type = "RespondException") =>
              consolidated' = consolidated
       /\ consolidated # <<>> =>
              /\ ~turn_in_progress'
              /\ generated' = generated
              /\ pc' \in {"turn_loop", "done"}]_vars

\* run returned after continue_turn() and then respond("X")
C15_Witness ==
    /\ pc = "done"
    /\ raised = Signal("RespondException", Val("str", <<"sX">>))
    /\ Len(conversation_history) = 2
    /\ consolidated = <<conversation_history>>

\* C16: the ContinueTurnException handler keeps the turn in progress, counts
\* no attempt and appends to the messages a prompt built from the store as
\* the script left it; the outer loop then starts a new round of attempts at
\* zero, and the next generation request is made with these messages, the
\* script and the new prompt at their end.
C16_ContinueTurn ==
    [][/\ (pc = "executed" /\ raised.type = "ContinueTurnException") =>
              /\ turn_in_progress'
              /\ correction_attempts' = correction_attempts
              /\ global_state' = global_state
              /\ messages' = Append(messages, _construct_system_prompt(global_state))
              /\ messages[Len(messages)] = Message("assistant", "script", action_script)
              /\ pc' = "turn_loop"
       /\ (pc # "executed" /\ raised.type = "ContinueTurnException") =>
              /\ turn_in_progress'
              /\ messages' = messages
              /\ global_state' = global_state
              /\ pc = "turn_loop" => (pc' = "attempt_loop" /\ correction_attempts' = 0)
              /\ pc = "attempt_loop" =>
                    /\ pc' = "validating"
                    /\ correction_attempts = 0
                    /\ generated' = generated + 1
                    /\ messages[Len(messages)] = _construct_system_prompt(global_state)]_vars

\* the request after search_web("F") and continue_turn(): its prompt shows the
\* result of search_web, which the prompt of the first request did not
C16_Witness ==
    /\ pc = "validating"
    /\ generated = 2
    /\ requests = 1
    /\ correction_attempts = 0
    /\ "search_web" \in DOMAIN global_state
    /\ messages[Len(messages)] = _construct_system_prompt(global_state)
    /\ messages[Len(messages)] # messages[Len(few_shot_examples) + 1]
    /\ messages[Len(messages) - 1] = Message("assistant", "script", Flatten(<<stSearchF, stContinue>>))

\* C17: an invocation whose handler raised is the last invocation of the
\* script; execute_script raises ScriptExecutionError with the handler's
\* exception as its cause, the store is the store the invocations before it
\* made (the failing one stored nothing), and run answers with its
\* ScriptExecutionError handler: an attempt is counted and the cause is fed
\* back.
C17_HandlerFailure ==
    [][/\ ExecuteStep =>
              \A i \in 1..Len(exec_log') :
                  exec_log'[i].sig = "Exception" =>
                      /\ i = Len(exec_log')
                      /\ exec_log'[i].ret = None
                      /\ raised' = Signal("ScriptExecutionError", exec_log'[i].exc)
                      /\ global_state' = Replay(SubSeq(exec_log', 1, i - 1), global_state)
       /\ (/\ pc = "executed"
           /\ exec_log # <<>>
           /\ exec_log[Len(exec_log)].sig = "Exception") =>
              /\ pc' = "attempt_loop"
              /\ correction_attempts' = correction_attempts + 1
              /\ messages'[Len(messages')] = ExecutionFeedback(exec_log[Len(exec_log)].exc)
              /\ global_state' = global_state]_vars

\* search_web("F") stored its result, then search_web(()) failed in the
\* handler: respond("X") was not reached
C17_Witness ==
    /\ pc = "executed"
    /\ action_script = Flatten(<<stSearchF, stFailSearch, stRespond>>)
    /\ raised = Signal("ScriptExecutionError", Val("exc", <<"AttributeError">>))
    /\ Len(exec_log) = 2
    /\ exec_log[2].cap = "search_web"
    /\ global_state["search_web"].result = Val("result", <<"Paris">>)

\* The statement is a bare name that is not a name of the execution scope.
IsForeignName(stmt) ==
    /\ stmt.t = "Expr"
    /\ stmt.kids[1].t = "Name"
    /\ \A n \in execution_scope : stmt.kids[1].id # <<n>>

\* C18: a script whose first statement is a name outside the execution scope
\* fails there with a NameError, whatever the name: the builtins of the host
\* (open) resolve no more than any other foreign name.
C18_OnlyScopeResolves ==
    (/\ pc = "executed"
     /\ Statements(action_script) # <<>>
     /\ IsForeignName(Statements(action_script)[1])) =>
        raised = Signal("ScriptExecutionError", Val("exc", <<"NameError">>))

\* the invocation e of the log completed with a result
Completed(e) == e.sig = "none" /\ e.ret # None

\* C19: the keys of the store are the key of _inject_initial_state and names
\* of the execution scope, never the name of a control primitive; an entry
\* appears or changes only in the step that executes a script, under the name
\* of a capability that an invocation of that script completed with a result,
\* and holds the result of such an invocation. Validation, the handlers of
\* run and failed invocations write nothing.
C19_KeysOfTheStore ==
    /\ [](/\ DOMAIN global_state \subseteq DOMAIN InitialState \cup execution_scope
          /\ DOMAIN global_state \cap ControlPrimitives = {}
          /\ DOMAIN InitialState \cap execution_scope = {})
    /\ [][\A k \in DOMAIN global_state' :
              (k \notin DOMAIN global_state \/ global_state'[k] # global_state[k]) =>
                  /\ ExecuteStep
                  /\ k \in execution_scope \ ControlPrimitives
                  /\ \E i \in 1..Len(exec_log') :
                        /\ exec_log'[i].cap = k
                        /\ Completed(exec_log'[i])
                        /\ global_state'[k] = StateEntry(exec_log'[i].ret)]_vars

\* after search_web("X"), search_web() and the retry search_web("X"),
\* delete_state_key("search_web"), respond("X"): the failed and the deleted
\* invocations left no key
C19_Witness ==
    /\ pc = "done"
    /\ correction_attempts = 1
    /\ messages[Len(messages) - 1] = ExecutionFeedback(Val("exc", <<"TypeError">>))
    /\ DOMAIN global_state = DOMAIN InitialState \cup {"delete_state_key"}
    /\ global_state["delete_state_key"] = StateEntry(Val("bool", <<"True">>))

\* The keys delete_key is asked for.
Keys == DOMAIN InitialState \cup execution_scope \cup {"<other>"}

\* delete_key(st, key) did what its flag says
DeleteIsExact(st, key, d) ==
    /\ d.ret <=> key \in DOMAIN st
    /\ DOMAIN d.store = DOMAIN st \ {key}
    /\ \A k \in DOMAIN d.store : d.store[k] = st[k]
    /\ ~d.ret => d.store = st

\* the store before the invocation i of the log of a script run from st
Before(log, i, st) == Replay(SubSeq(log, 1, i - 1), st)

\* C20: delete_key answers True exactly when the key is in the store, the key
\* is then gone and every other entry is as it was; it answers False for a key
\* that is not there and leaves the store as it is. This holds of delete_key
\* on every store the session reaches, and of every delete_state_key a script
\* invoked: the flag it returned tells whether the key was in the store the
\* invocations before it had made.
C20_DeleteKey ==
    /\ [](\A key \in Keys : DeleteIsExact(global_state, key, delete_key(global_state, key)))
    /\ [][ExecuteStep =>
              \A i \in 1..Len(exec_log') :
                  (exec_log'[i].cap = "delete_state_key" /\ Completed(exec_log'[i])) =>
                      /\ exec_log'[i].ret.t = "bool"
                      /\ exec_log'[i].ret.v = <<"True">> <=>
                            KeyOf(exec_log'[i].arg[1]) \in DOMAIN Before(exec_log', i, global_state)
                      /\ (i = Len(exec_log') - 1 /\ ~Completed(exec_log'[i + 1])) =>
                            /\ KeyOf(exec_log'[i].arg[1]) \notin DOMAIN global_state'
                            /\ \A k \in DOMAIN Before(exec_log', i, global_state) :
                                  k \notin {KeyOf(exec_log'[i].arg[1]), "delete_state_key"} =>
                                      /\ k \in DOMAIN global_state'
                                      /\ global_state'[k] = Before(exec_log', i, global_state)[k]]_vars

\* delete_state_key("search_web") returned True after search_web("X") and
\* left the entry of the session's initialization
C20_Witness ==
    /\ pc = "executed"
    /\ Len(exec_log) = 3
    /\ exec_log[2].cap = "delete_state_key"
    /\ exec_log[2].ret = Val("bool", <<"True">>)
    /\ "search_web" \notin DOMAIN global_state
    /\ global_state["project_file_list"] = InitialState["project_file_list"]

----------------------------------------------------------------------------
(* Claims about whole runs, under Spec *)

\* The first script of the run raised RespondException.
FirstScriptResponded == generated = 1 /\ raised.type = "RespondException"

\* The run is over, or on its way out of the loops, with the response handled.
EndsResponded ==
    /\ pc \in {"executed", "turn_loop", "done"}
    /\ requests = 1
    /\ correction_attempts = 0
    /\ pc # "executed" =>
          /\ ~turn_in_progress
          /\ consolidated = <<conversation_history>>
          /\ conversation_history = <<[agent |-> raised.value]>>

\* the capabilities the script invoked with a result
ResultReturning(log) == { c \in execution_scope : Returns(log, c) # {} }

\* the keys the script deleted after the last result stored under them
DeletedKeys(log) ==
    { k \in Keys : DeletedAfter(log, k, IF Returns(log, k) = {} THEN 0
                                        ELSE Latest(Returns(log, k))) }

\* C21 as stated: when the first script of the run ends with respond, the run
\* ends after that one generation request with the attempt counter at 0, and
\* the store is the initial store plus one entry for each capability the
\* script invoked with a result.
C21_AsStated ==
    FirstScriptResponded =>
        /\ EndsResponded
        /\ DOMAIN global_state = DOMAIN InitialState \cup ResultReturning(exec_log)
        /\ \A k \in DOMAIN InitialState : global_state[k] = InitialState[k]

\* C21, amended: the same, the keys the script deleted with delete_state_key
\* after the last result stored under them excepted.
C21_FirstScriptResponds ==
    FirstScriptResponded =>
        /\ EndsResponded
        /\ DOMAIN global_state =
              (DOMAIN InitialState \cup ResultReturning(exec_log)) \ DeletedKeys(exec_log)
        /\ \A k \in DOMAIN InitialState \ DeletedKeys(exec_log) :
              global_state[k] = InitialState[k]
        /\ \A c \in ResultReturning(exec_log) \ DeletedKeys(exec_log) :
              global_state[c] = StateEntry(exec_log[Latest(Returns(exec_log, c))].ret)

\* run returned after reflect("X"); search_web("X"); respond("X")
C21_Witness ==
    /\ pc = "done"
    /\ generated = 1
    /\ action_script = Flatten(<<stReflect, stSearch, stRespond>>)
    /\ raised = Signal("RespondException", Val("str", <<"sX">>))
    /\ correction_attempts = 0
    /\ DOMAIN global_state = DOMAIN InitialState \cup {"search_web"}

----------------------------------------------------------------------------
(* Claims about the stream and the buffer, under SpecLint *)

\* p is a prefix of s
IsPrefix(p, s) == Len(p) <= Len(s) /\ p = SubSeq(s, 1, Len(p))

\* validate_stream raised in its loop, on the token it had just appended
RaisedMidStream == linter_error # NoError /\ Len(action_script_parts) < Len(consumed)

\* C22: the buffer is the concatenation of the tokens taken from the stream
\* and the tokens yielded are a prefix of the input; each iteration appends
\* its token to the buffer and then either yields it or raises, and when it
\* raises the consumer holds exactly the tokens before that one, whose text
\* is a proper prefix of the rejected buffer.
C22_BufferAndYield ==
    /\ [](/\ buffer = Flatten(consumed)
          /\ IsPrefix(action_script_parts, InputTokens)
          /\ linter_error # NoError => linter_error.code = buffer
          /\ linter_error = NoError => action_script_parts = consumed
          /\ RaisedMidStream =>
                /\ action_script_parts = SubSeq(consumed, 1, Len(consumed) - 1)
                /\ IsPrefix(Flatten(action_script_parts), buffer)
                /\ Len(Flatten(action_script_parts)) < Len(buffer))
    /\ [][(pc = "validating" /\ script_stream # <<>>) =>
              /\ consumed' = Append(consumed, Head(script_stream))
              /\ buffer' = buffer \o Head(script_stream)
              /\ pc' \in {"validating", "except_linter"}
              /\ pc' = "validating" => action_script_parts' = consumed'
              /\ pc' = "except_linter" =>
                    /\ action_script_parts' = consumed
                    /\ linter_error' # NoError]_vars

\* the newline was yielded, foo() raised, and a token is still in the stream
C22_Witness ==
    /\ pc = "except_linter"
    /\ RaisedMidStream
    /\ action_script_parts = << <<"NL">> >>
    /\ consumed = << <<"NL">>, <<"foo", "(", ")">> >>
    /\ script_stream # <<>>

\* validate_stream got to its final check: every token was yielded
TrailingCheckRan ==
    LintEnded /\ script_stream = <<>> /\ action_script_parts = consumed

\* The text parses and holds a call whose target is outside the allowed set.
HasDisallowedCall(text, allowed) ==
    /\ ast_parse(text).ok
    /\ \E i \in 1..Len(CallNodes(text)) : TargetForeign(CallNodes(text)[i], allowed)

\* C23: a buffer that does not parse raises nothing in the loop, unless it
\* holds the import text; the final check runs when every token has been
\* yielded, and it rejects the script that does not parse and the script
\* with a disallowed call, so that neither is handed to execute_script.
C23_TrailingCheck ==
    /\ (RaisedMidStream /\ ~ast_parse(buffer).ok) => ContainsImportText(buffer)
    /\ LintAccepted => TrailingCheckRan
    /\ (/\ TrailingCheckRan
        /\ ~ast_parse(buffer).ok \/ HasDisallowedCall(buffer, allowed_functions))
          => LintRaised

----------------------------------------------------------------------------
(* Claims about the attempt counter and termination, under Spec *)

\* The step handles a LinterError or a ScriptExecutionError (that of
\* execute_script or that of a script that returned).
FailureStep ==
    /\ pc' = "attempt_loop"
    /\ \/ pc = "except_linter"
       \/ pc = "executed" /\ raised.type \in {"none", "ScriptExecutionError"}

\* The step issues a generation request.
GenerateStep == generated' = generated + 1

\* C24 as stated: the attempt counter is between 0 and 3 and changes only by
\* +1, in the handling of a LinterError or a ScriptExecutionError; a request
\* is issued only while it is below 3, at most three times in one phase.
C24_AsStated ==
    [][/\ correction_attempts \in 0..max_correction_attempts
       /\ correction_attempts' \in 0..max_correction_attempts
       /\ requests' <= max_correction_attempts
       /\ correction_attempts' # correction_attempts =>
              (FailureStep /\ correction_attempts' = correction_attempts + 1)
       /\ FailureStep => correction_attempts' = correction_attempts + 1
       /\ generated' # generated =>
              /\ GenerateStep
              /\ correction_attempts < max_correction_attempts
              /\ requests' = requests + 1]_vars

\* C24, amended: the same, the counter being also set back to 0 when the
\* outer loop starts a new round of attempts.
C24_AttemptCounter ==
    [][/\ correction_attempts \in 0..max_correction_attempts
       /\ correction_attempts' \in 0..max_correction_attempts
       /\ requests' <= max_correction_attempts
       /\ correction_attempts' # correction_attempts =>
              \/ FailureStep /\ correction_attempts' = correction_attempts + 1
              \/ pc = "turn_loop" /\ pc' = "attempt_loop" /\ correction_attempts' = 0
       /\ FailureStep => correction_attempts' = correction_attempts + 1
       /\ generated' # generated =>
              /\ GenerateStep
              /\ correction_attempts < max_correction_attempts
              /\ requests' = requests + 1]_vars

\* three failed attempts in the round that followed a continue_turn()
C24_Witness ==
    /\ pc = "attempt_loop"
    /\ correction_attempts = max_correction_attempts
    /\ requests = max_correction_attempts
    /\ generated = max_correction_attempts + 1
    /\ Len(conversation_history) = 1

\* C25: the number of generation requests of one run is bounded, also when
\* scripts end with continue_turn: a run does not go on for ever from one
\* continue_turn to the next, so by the MaxRequests-th script that ended
\* with respond or continue_turn the turn is over.
C25_RequestsBounded ==
    Len(conversation_history) >= MaxRequests => ~turn_in_progress

----------------------------------------------------------------------------
(* Claims about what an attempt leaves in the store, under Spec *)

\* C26: execute_script is called only when validate_stream has yielded the
\* whole stream and its final check has passed, on the text of that stream;
\* from the generation request to the end of the LinterError handler nothing
\* invokes a handler and the store stays as it was.
C26_OnlyValidatedScripts ==
    [][/\ (pc' = "executed" /\ pc # "executed") =>
              /\ pc = "validated"
              /\ linter_error = NoError
              /\ script_stream = <<>>
              /\ action_script_parts = consumed
              /\ FinalCheck(Flatten(consumed), allowed_functions) = NoError
              /\ action_script' = Flatten(consumed)
       /\ (exec_log' # exec_log /\ exec_log' # <<>>) => ExecuteStep
       /\ pc \in {"attempt_loop", "validating", "except_linter"} =>
              global_state' = global_state
       /\ pc \in {"validating", "except_linter"} =>
              (exec_log = <<>> /\ exec_log' = <<>>)]_vars

\* the attempt after search_web("F"); continue_turn() ended in a LinterError:
\* the store still is what that script made
C26_Witness ==
    /\ pc = "attempt_loop"
    /\ linter_error # NoError
    /\ correction_attempts = 1
    /\ exec_log = <<>>
    /\ Len(conversation_history) = 1
    /\ messages[Len(messages)].kind = "syntax_error_feedback"
    /\ DOMAIN global_state = DOMAIN InitialState \cup {"search_web"}

\* The only invocation of the log that completed with a result is its
\* first, a delete_state_key of a key other than "delete_state_key".
OnlyDeletes(log) ==
    /\ log # <<>>
    /\ log[1].cap = "delete_state_key"
    /\ Completed(log[1])
    /\ KeyOf(log[1].arg[1]) # "delete_state_key"
    /\ \A i \in 2..Len(log) : ~Completed(log[i])

\* C27: a script whose only completed invocation is delete_state_key(k)
\* leaves the store with the keys it had minus k, each with the entry it had.
C27_DeleteChangesOnlyItsKey ==
    [][(ExecuteStep /\ OnlyDeletes(exec_log')) =>
          /\ DOMAIN global_state' = DOMAIN global_state \ {KeyOf(exec_log'[1].arg[1])}
          /\ \A k \in DOMAIN global_state' : global_state'[k] = global_state[k]]_vars

====
